---- MODULE Spec2Model ----
(***************************************************************************)
(* FastMoss -> Supabase catalog synchronisation (src/sync.py,              *)
(* src/fastmoss_client.py, src/config.py, src/main.py).                    *)
(*                                                                         *)
(* One run of run_sync is modelled as a sequential state machine.  The     *)
(* program counter pc names the loop head or call the run is at:           *)
(*   "region"   head of `for region in FASTMOSS_REGIONS`                   *)
(*   "category" head of `for category in FASTMOSS_CATEGORIES`              *)
(*   "page"     head of the while loop of                                  *)
(*              fetch_products_for_region_category                         *)
(*   "attempt"  head of the retry loop of FastMossClient.search_products   *)
(*   "got"      search_products has returned; the rest of the while body   *)
(*   "dedupe"   the deduplication block of run_sync                        *)
(*   "upsert"   the call of upsert_products (transformation)               *)
(*   "images"   the image loop of upsert_products                          *)
(*   "chunk"    head of the batch loop of upsert_products                  *)
(*   "done"     run_sync has returned (total_synced, errors)               *)
(*   "raised"   an exception has left run_sync                             *)
(* main (src/main.py) turns the way run_sync ended into the exit status.   *)
(*                                                                         *)
(* The upstream API and the store are the environment: every request and   *)
(* every chunk write draws its outcome from a small set.                   *)
(*                                                                         *)
(* Time is counted in ticks of half a second.  The only clock reading the  *)
(* program makes is time.time() - self.last_request_time, so the model     *)
(* keeps that difference (elapsed), saturated at ElapsedCap.               *)
(***************************************************************************)
EXTENDS Integers, Sequences, FiniteSets, TLC

(***************************************************************************)
(* Configuration: src/config.py                                            *)
(***************************************************************************)
\* FASTMOSS_REGIONS / FASTMOSS_CATEGORIES: the comma-split environment
\* values, already stripped; "" is an entry that is blank after strip().
FASTMOSS_REGIONS == <<"US", "", "MX">>
FASTMOSS_CATEGORIES == <<"14", "", "25">>
\* SYNC_LIMIT_PER_REGION: environment-supplied (default 500).
SYNC_LIMIT_PER_REGION == 9
\* REQUEST_DELAY = 1.5 s = 3 ticks.
REQUEST_DELAY == 3
MAX_RETRIES == 3
\* PAGE_SIZE = 50: the default pagesize parameter sent upstream.
PAGE_SIZE == 50
\* products_per_page = 5 in fetch_products_for_region_category.
products_per_page == 5
\* batch_size = 100 in upsert_products.
batch_size == 100
\* time.sleep(1) between pages = 2 ticks.
PAGE_SLEEP == 2

(***************************************************************************)
(* Bounds of the model                                                     *)
(***************************************************************************)
\* Longest time one HTTP exchange takes, in ticks.
MaxLatency == 1
\* Largest batch the upsert specification starts from.
MaxRecords == 250
\* Largest limit the fetch specification starts from.
MaxLimit == 12
\* Most malformed records the upstream serves during one run.
MaxDefects == 1
\* Most records the deduplication specification starts from.
MaxCollected == 3

ElapsedCap == REQUEST_DELAY + 1

Min(a, b) == IF a < b THEN a ELSE b

RECURSIVE Pow2(_)
Pow2(k) == IF k = 0 THEN 1 ELSE 2 * Pow2(k - 1)

\* time.sleep(d) and any other passing of d ticks, seen through elapsed.
Advance(e, d) == Min(e + d, ElapsedCap)

(***************************************************************************)
(* Python values as they reach the code.  A value is tagged with its type  *)
(* and carries its str() rendering: the integer 123 and the string "123"   *)
(* are different values with the same rendering.                           *)
(***************************************************************************)
PyNone == [t |-> "none", v |-> ""]
PyStr(s) == [t |-> "str", v |-> s]
PyInt(n) == [t |-> "int", v |-> ToString(n), n |-> n]
PyList(s) == [t |-> "list", v |-> s]
\* A str given by its characters (the strings the numeric conversions parse).
PyChars(cs) == [t |-> "chars", v |-> cs]
\* A list given by its elements.
PyArray(items) == [t |-> "array", v |-> items]
\* A finite float, in hundredths; the infinities (sign 1 or -1); NaN.
PyFloat(h) == [t |-> "float", n |-> h]
PyInf(sign) == [t |-> "inf", n |-> sign]
PyNaN == [t |-> "nan", n |-> 0]
\* An int beyond the range of float (a JSON integer literal of more than
\* 308 digits).
PyHugeInt == [t |-> "hugeint", n |-> 1]

\* bool(value)
Truthy(x) ==
    CASE x.t = "none" -> FALSE
      [] x.t = "str" -> x.v # ""
      [] x.t = "int" -> x.v # "0"
      [] x.t = "list" -> x.v # ""
      [] x.t = "chars" -> x.v # <<>>
      [] x.t = "array" -> x.v # <<>>
      [] x.t = "float" -> x.n # 0
      [] x.t \in {"inf", "nan", "hugeint"} -> TRUE

\* hash(value) succeeds
Hashable(x) == x.t \notin {"list", "array"}

\* a or b
PyOr(a, b) == IF Truthy(a) THEN a ELSE b

\* A raw record of a page: a JSON object (mapping) with its product_id, or
\* any other JSON value (a string, a number, null, a list).
RawMapping(pid) == [kind |-> "mapping", product_id |-> pid]
RawScalar == [kind |-> "scalar", product_id |-> PyNone]

IsMapping(p) == p.kind = "mapping"

\* p.get("product_id") of a mapping
GetProductId(p) == p.product_id

\* p.get(key) of a mapping: None for a key the record does not carry.
Get(p, key) == IF key \in DOMAIN p THEN p[key] ELSE PyNone

(***************************************************************************)
(* The upstream search API (the environment)                               *)
(***************************************************************************)
\* Identity of record j of a page: neighbouring categories overlap.
CatalogId(c, pg, j) == (c - 1) * 2 + (pg - 1) * products_per_page + j

Defects == {"none", "notmapping", "unhashable", "noid", "intid"}
DefectPositions == {1, 2}

UpstreamRecord(c, pg, j, defect, pos) ==
    IF j # pos \/ defect = "none" THEN RawMapping(PyStr(ToString(CatalogId(c, pg, j))))
    ELSE CASE defect = "notmapping" -> RawScalar
           [] defect = "unhashable" -> RawMapping(PyList(ToString(CatalogId(c, pg, j))))
           [] defect = "noid" -> RawMapping(PyNone)
           [] defect = "intid" -> RawMapping(PyInt(CatalogId(c, pg, j)))

UpstreamPage(c, pg, n, defect, pos) ==
    [j \in 1..n |-> UpstreamRecord(c, pg, j, defect, pos)]

\* Numbers of records a page may carry: none, a short page, a page of the
\* plan's 5, and more than 5 (pagesize = PAGE_SIZE was asked for).
PageLengths == {0, 2, 5, 7}
Codes == {0, 401}

\* A parsed 2xx body {code, data: {list | product_list: [...], total}}.
\* data is "mapping", "absent" (no data key) or "notmapping" (null, a list,
\* a string).  An absent array key is the empty sequence.
Body(code, data, list, product_list) ==
    [code |-> code, data |-> data, list |-> list, product_list |-> product_list]

\* The array key that carries the records of a body.
ArrayKeys == {"list", "product_list"}

\* The bodies whose data is a mapping: the records of page pg of category c
\* under one of the two array keys.
PageBodyOf(code, key, recs) ==
    IF key = "list" THEN Body(code, "mapping", recs, <<>>)
    ELSE Body(code, "mapping", <<>>, recs)

\* The bodies without a usable data: no data key, or a data that is no mapping.
BareBodies == { Body(code, data, <<>>, <<>>) : code \in Codes, data \in {"absent", "notmapping"} }

\* {"code": -1, "data": {"list": [], "total": 0}}
SENTINEL == Body(-1, "mapping", <<>>, <<>>)
NoBody == Body(0, "absent", <<>>, <<>>)

TransportFailures == {"RequestError", "HTTPStatusError"}

(***************************************************************************)
(* State                                                                   *)
(***************************************************************************)
VARIABLES
    pc,
    \* run_sync
    ri,               \* index of the current entry of FASTMOSS_REGIONS
    ci,               \* index of the current entry of FASTMOSS_CATEGORIES
    total_synced,
    errors,
    region_products,
    upserted,         \* what upsert_products returned for the region; -1: nothing
    fetch_log,        \* history: how each fetch call of the run ended
    exit_status,      \* main: the status passed to sys.exit; -1: still running
    \* fetch_products_for_region_category (its locals live until the next
    \* step of the category loop)
    limit,
    products,
    page,
    response,         \* what search_products returned (at pc = "got")
    fetched,          \* history: the page_products of this call, concatenated
    returned,         \* history: the list this call returned
    requested,        \* history: the search_products calls of this call, in order
    page_sleeps,      \* history: the time.sleep(1) calls of this call
    \* FastMossClient
    attempt,
    elapsed,          \* time.time() - self.last_request_time, saturated
    served,           \* history: what the upstream answered to the latest attempt
    req_gap,          \* history: time from the previous stamp to the latest request
    call,             \* history: how the latest search_products call ended
    backoffs,         \* history: the backoff sleeps of the latest search_products call
    \* upsert_products (its locals live until the next step of the region
    \* loop) and the store
    transformed,
    i,
    total_upserted,
    store,
    writes,           \* history: the chunk writes issued, in order
    rehosts,          \* history: the process_product_image calls, in order
    other,            \* the batch loop of a second run writing to the same table
    defects           \* environment: the malformed records served so far

runVars == <<ri, ci, total_synced, errors, region_products, upserted, fetch_log, exit_status>>
fetchVars == <<limit, products, page, response, fetched, returned, requested, page_sleeps>>
clientVars == <<attempt, elapsed, served, req_gap, call, backoffs>>
upsertVars == <<transformed, i, total_upserted, store, writes, rehosts, other>>
vars == <<pc, runVars, fetchVars, clientVars, upsertVars, defects>>

NoCall == [result |-> "none", attempts |-> 0, exc |-> "none"]
NotServed == [kind |-> "none", body |-> NoBody]

\* An entry of fetch_log: the fetch for region r, category c ended by
\* returning n records or by raising.
FetchEnd(r, c, how, n) == [r |-> r, c |-> c, result |-> how, n |-> n]

\* The error entries run_sync appends (the message text is not modelled).
FetchError(reg, cat) == [kind |-> "fetch", region |-> reg, category |-> cat]
UpsertError(reg) == [kind |-> "upsert", region |-> reg, category |-> ""]

\* No second run is writing.
NoOtherRun == [transformed |-> <<>>, i |-> 0]

(***************************************************************************)
(* run_sync: the state after `errors = []` and FastMossClient()            *)
(***************************************************************************)
Init ==
    /\ pc = "region"
    /\ ri = 1
    /\ ci = 1
    /\ total_synced = 0
    /\ errors = <<>>
    /\ region_products = <<>>
    /\ upserted = -1
    /\ fetch_log = <<>>
    /\ exit_status = -1
    /\ limit = 0
    /\ products = <<>>
    /\ page = 1
    /\ response = NoBody
    /\ fetched = <<>>
    /\ returned = <<>>
    /\ requested = <<>>
    /\ page_sleeps = 0
    /\ attempt = 0
    /\ elapsed = ElapsedCap    \* last_request_time = 0: the epoch is long ago
    /\ served = NotServed
    /\ req_gap = ElapsedCap
    /\ call = NoCall
    /\ backoffs = <<>>
    /\ transformed = <<>>
    /\ i = 0
    /\ total_upserted = 0
    /\ store = {}
    /\ writes = <<>>
    /\ rehosts = <<>>
    /\ other = NoOtherRun
    /\ defects = 0

(***************************************************************************)
(* run_sync: the two loop heads                                            *)
(***************************************************************************)
\* A region that is blank.
BlankRegion == ""

region == FASTMOSS_REGIONS[ri]
category == FASTMOSS_CATEGORIES[ci]

\* The frame of the upsert_products call of the previous region is gone.
DropUpsertFrame ==
    /\ transformed' = <<>>
    /\ i' = 0
    /\ total_upserted' = 0
    /\ upserted' = -1

\* `for region in FASTMOSS_REGIONS`, `if not region: continue`, and the
\* return after the loop.
RegionLoop ==
    /\ pc = "region"
    /\ IF ri > Len(FASTMOSS_REGIONS)
         THEN pc' = "done" /\ UNCHANGED <<ri, ci, region_products>>
         ELSE IF region = ""
           THEN ri' = ri + 1 /\ pc' = "region" /\ UNCHANGED <<ci, region_products>>
           ELSE region_products' = <<>> /\ ci' = 1 /\ pc' = "category" /\ UNCHANGED ri
    /\ DropUpsertFrame
    /\ UNCHANGED <<total_synced, errors, fetch_log, exit_status, store, writes, rehosts, other>>
    /\ UNCHANGED <<fetchVars, clientVars, defects>>

limit_per_category == SYNC_LIMIT_PER_REGION \div Len(FASTMOSS_CATEGORIES)

\* The frame of the previous fetch_products_for_region_category call is gone.
DropFetchFrame ==
    /\ products' = <<>>
    /\ page' = 1
    /\ response' = NoBody
    /\ fetched' = <<>>
    /\ returned' = <<>>
    /\ requested' = <<>>
    /\ page_sleeps' = 0
    /\ attempt' = 0
    /\ served' = NotServed
    /\ req_gap' = ElapsedCap
    /\ call' = NoCall
    /\ backoffs' = <<>>

\* `for category in FASTMOSS_CATEGORIES`, `if not category: continue`, and
\* the call of fetch_products_for_region_category up to its loop head.
CategoryLoop ==
    /\ pc = "category"
    /\ IF ci > Len(FASTMOSS_CATEGORIES)
         THEN pc' = "dedupe" /\ limit' = 0 /\ UNCHANGED ci
         ELSE IF category = ""
           THEN ci' = ci + 1 /\ pc' = "category" /\ limit' = 0
           ELSE limit' = limit_per_category /\ pc' = "page" /\ UNCHANGED ci
    /\ DropFetchFrame
    /\ UNCHANGED <<ri, total_synced, errors, region_products, upserted, fetch_log, exit_status>>
    /\ UNCHANGED <<elapsed, upsertVars, defects>>

(***************************************************************************)
(* fetch_products_for_region_category                                      *)
(***************************************************************************)
pages_needed(lim) == (lim + products_per_page - 1) \div products_per_page

\* Take without the trim: `return products`.
TakeAll(s, n) == s

\* s[:n]
Take(s, n) == SubSeq(s, 1, Min(n, Len(s)))

\* `return products[:limit]` and, in run_sync, region_products.extend and
\* the step to the next category.
FetchReturns(prods) ==
    /\ returned' = Take(prods, limit)
    /\ region_products' = region_products \o Take(prods, limit)
    /\ fetch_log' = Append(fetch_log, FetchEnd(ri, ci, "returned", Len(Take(prods, limit))))
    /\ ci' = ci + 1
    /\ pc' = "category"
    /\ UNCHANGED <<ri, total_synced, errors, upserted, exit_status>>

\* FetchRaises without the except clause: the exception leaves run_sync.
FetchRaisesUncaught ==
    /\ fetch_log' = Append(fetch_log, FetchEnd(ri, ci, "raised", 0))
    /\ pc' = "raised"
    /\ UNCHANGED <<ri, ci, total_synced, errors, region_products, upserted, exit_status>>

\* An exception leaving fetch_products_for_region_category: the except
\* clause of run_sync's category loop.
FetchRaises ==
    /\ errors' = Append(errors, FetchError(region, category))
    /\ fetch_log' = Append(fetch_log, FetchEnd(ri, ci, "raised", 0))
    /\ ci' = ci + 1
    /\ pc' = "category"
    /\ UNCHANGED <<ri, total_synced, region_products, upserted, exit_status>>

\* SearchRequest that asks for the first page every time.
SearchRequestFirstPage(pg) == [page |-> 1, pagesize |-> PAGE_SIZE]

\* The request of search_products(region, category_l1, page): pagesize is
\* left to its default, PAGE_SIZE.
SearchRequest(pg) == [page |-> pg, pagesize |-> PAGE_SIZE]

\* The head of `while len(products) < limit and page <= pages_needed`.
PageLoop ==
    /\ pc = "page"
    /\ IF Len(products) < limit /\ page <= pages_needed(limit)
         THEN /\ IF MAX_RETRIES > 0
                   THEN pc' = "attempt" /\ response' = NoBody
                   ELSE pc' = "got" /\ response' = SENTINEL
              /\ attempt' = 0
              /\ served' = NotServed
              /\ call' = NoCall
              /\ backoffs' = <<>>
              /\ requested' = Append(requested, SearchRequest(page))
              /\ UNCHANGED <<runVars, returned, elapsed, req_gap>>
         ELSE /\ FetchReturns(products)
              /\ UNCHANGED <<response, clientVars, requested>>
    /\ UNCHANGED <<limit, products, page, fetched, page_sleeps, upsertVars, defects>>

\* response.get("data", {}).get("product_list", [])
page_products_of(resp) ==
    IF resp.data = "mapping" THEN resp.product_list ELSE <<>>

\* A while body that never takes a page for the last one.
EndOfResultsNever(page_products) == FALSE

\* `if len(page_products) < products_per_page`: the end of the results.
EndOfResults(page_products) == Len(page_products) < products_per_page

\* A delay after every page that is not the end of the results.
DelayAlways(pg, collected, lim) == TRUE

\* `if page <= pages_needed and len(products) < limit: time.sleep(1)`, with
\* page already incremented and products extended.
delay_before_next(pg, collected, lim) == pg <= pages_needed(lim) /\ collected < lim

\* The while body after search_products has returned.
PageBody ==
    /\ pc = "got"
    /\ LET page_products == page_products_of(response)
           grown == products \o page_products
       IN  IF page_products = <<>>
             THEN \* break
                  /\ FetchReturns(products)
                  /\ UNCHANGED <<products, page, fetched, elapsed, page_sleeps>>
             ELSE IF page = 1 /\ ~IsMapping(page_products[1])
               THEN \* page_products[0].keys() raises AttributeError
                  /\ FetchRaises
                  /\ UNCHANGED <<products, page, fetched, returned, elapsed, page_sleeps>>
               ELSE IF EndOfResults(page_products)
                 THEN \* break
                    /\ FetchReturns(grown)
                    /\ products' = grown
                    /\ fetched' = fetched \o page_products
                    /\ UNCHANGED <<page, elapsed, page_sleeps>>
                 ELSE
                    /\ products' = grown
                    /\ fetched' = fetched \o page_products
                    /\ page' = page + 1
                    /\ elapsed' = IF delay_before_next(page + 1, Len(grown), limit)
                                    THEN Advance(elapsed, PAGE_SLEEP)
                                    ELSE elapsed
                    /\ page_sleeps' = IF delay_before_next(page + 1, Len(grown), limit)
                                        THEN page_sleeps + 1
                                        ELSE page_sleeps
                    /\ pc' = "page"
                    /\ UNCHANGED <<runVars, returned>>
    /\ response' = NoBody
    /\ served' = NotServed
    /\ call' = NoCall
    /\ backoffs' = <<>>
    /\ UNCHANGED <<limit, requested, attempt, req_gap, upsertVars, defects>>

(***************************************************************************)
(* FastMossClient                                                          *)
(***************************************************************************)
\* _wait_for_rate_limit that sleeps for the wrong difference
\* (elapsed instead of REQUEST_DELAY - elapsed).
WaitSleepsElapsed(e) ==
    IF e < REQUEST_DELAY THEN Advance(e, e) ELSE e

\* _wait_for_rate_limit, given elapsed = time.time() - last_request_time on
\* entry: the same difference at the moment it stamps last_request_time.
_wait_for_rate_limit(e) ==
    IF e < REQUEST_DELAY THEN Advance(e, REQUEST_DELAY - e) ELSE e

\* backoff that always sleeps for one second.
BackoffFixed(k) == 2 * Pow2(0)

\* time.sleep(2 ** attempt), in ticks
backoff(k) == 2 * Pow2(k)

\* The statements between response.json() and `return data` raise
\* AttributeError: data.get("data", {}).get(...) on a data that is no
\* mapping, products[0].keys() on a first record that is no mapping.
ParsedBodyRaises(body) ==
    \/ body.data = "notmapping"
    \/ body.list # <<>> /\ ~IsMapping(body.list[1])

\* search_products returns data to the while body of the fetch.
SearchReturns(data, lat) ==
    /\ response' = data
    /\ call' = [result |-> "returned", attempts |-> attempt + 1, exc |-> "none"]
    /\ elapsed' = lat
    /\ pc' = "got"
    /\ UNCHANGED <<runVars, attempt, backoffs>>

\* search_products raises exc: nothing in the fetch catches it.
SearchRaises(exc, lat) ==
    /\ call' = [result |-> "raised", attempts |-> attempt + 1, exc |-> exc]
    /\ elapsed' = lat
    /\ FetchRaises
    /\ UNCHANGED <<response, attempt, backoffs>>

\* One pass of `for attempt in range(MAX_RETRIES)` that ends in
\* httpx.RequestError or httpx.HTTPStatusError: back off and retry, or raise.
AttemptFails(exc, lat) ==
    /\ pc = "attempt"
    /\ attempt < MAX_RETRIES
    /\ req_gap' = _wait_for_rate_limit(elapsed)
    /\ served' = [kind |-> exc, body |-> NoBody]
    /\ IF attempt < MAX_RETRIES - 1
         THEN /\ elapsed' = Advance(lat, backoff(attempt))
              /\ backoffs' = Append(backoffs, backoff(attempt))
              /\ attempt' = attempt + 1
              /\ pc' = "attempt"
              /\ UNCHANGED <<runVars, response, call>>
         ELSE SearchRaises(exc, lat)
    /\ UNCHANGED <<limit, products, page, fetched, returned, requested, page_sleeps>>
    /\ UNCHANGED <<upsertVars, defects>>

\* AttemptBadJson handled like a transport failure: back off and retry.
AttemptBadJsonRetried(lat) ==
    /\ pc = "attempt"
    /\ attempt < MAX_RETRIES
    /\ req_gap' = _wait_for_rate_limit(elapsed)
    /\ served' = [kind |-> "JSONDecodeError", body |-> NoBody]
    /\ IF attempt < MAX_RETRIES - 1
         THEN /\ elapsed' = Advance(lat, backoff(attempt))
              /\ backoffs' = Append(backoffs, backoff(attempt))
              /\ attempt' = attempt + 1
              /\ pc' = "attempt"
              /\ UNCHANGED <<runVars, response, call>>
         ELSE SearchRaises("JSONDecodeError", lat)
    /\ UNCHANGED <<limit, products, page, fetched, returned, requested, page_sleeps>>
    /\ UNCHANGED <<upsertVars, defects>>

\* One pass whose 2xx body does not parse: json.JSONDecodeError.
AttemptBadJson(lat) ==
    /\ pc = "attempt"
    /\ attempt < MAX_RETRIES
    /\ req_gap' = _wait_for_rate_limit(elapsed)
    /\ served' = [kind |-> "JSONDecodeError", body |-> NoBody]
    /\ SearchReturns(SENTINEL, lat)
    /\ UNCHANGED <<limit, products, page, fetched, returned, requested, page_sleeps>>
    /\ UNCHANGED <<upsertVars, defects>>

\* One pass whose 2xx body parses.
AttemptParses(body, lat) ==
    /\ pc = "attempt"
    /\ attempt < MAX_RETRIES
    /\ req_gap' = _wait_for_rate_limit(elapsed)
    /\ served' = [kind |-> "parsed", body |-> body]
    /\ IF ParsedBodyRaises(body)
         THEN SearchRaises("AttributeError", lat)
         ELSE SearchReturns(body, lat)
    /\ UNCHANGED <<limit, products, page, fetched, returned, requested, page_sleeps>>
    /\ UNCHANGED upsertVars

\* The upstream answers with the records of the page, all well-formed.
ServesPage(code, key, n, lat) ==
    /\ AttemptParses(PageBodyOf(code, key, UpstreamPage(ci, page, n, "none", 0)), lat)
    /\ UNCHANGED defects

\* The upstream answers with the records of the page, one of them malformed.
ServesDefect(code, key, n, defect, pos, lat) ==
    /\ defects < MaxDefects
    /\ defect # "none"
    /\ pos <= n
    /\ AttemptParses(PageBodyOf(code, key, UpstreamPage(ci, page, n, defect, pos)), lat)
    /\ defects' = defects + 1

\* The upstream answers with a body that has no data, or a data that is no
\* mapping.
ServesBare(body, lat) ==
    /\ AttemptParses(body, lat)
    /\ UNCHANGED defects

(***************************************************************************)
(* run_sync: the deduplication block                                       *)
(***************************************************************************)
\* One pass of `for p in region_products` raises: p.get on a record that is
\* no mapping (AttributeError), `pid not in seen_ids` on an unhashable pid
\* (TypeError).
DedupeRecordRaises(p) ==
    \/ ~IsMapping(p)
    \/ Truthy(GetProductId(p)) /\ ~Hashable(GetProductId(p))

DedupeRaises(rp) == \E k \in 1..Len(rp) : DedupeRecordRaises(rp[k])

RECURSIVE unique_products(_, _)
unique_products(rp, seen_ids) ==
    IF rp = <<>> THEN <<>>
    ELSE LET p == Head(rp)
             pid == GetProductId(p)
         IN  IF Truthy(pid) /\ pid \notin seen_ids
               THEN <<p>> \o unique_products(Tail(rp), seen_ids \cup {pid})
               ELSE unique_products(Tail(rp), seen_ids)

Dedupe ==
    /\ pc = "dedupe"
    /\ IF region_products = <<>>
         THEN pc' = "upsert" /\ UNCHANGED region_products
         ELSE IF DedupeRaises(region_products)
           THEN pc' = "raised" /\ UNCHANGED region_products
           ELSE pc' = "upsert"
                /\ region_products' = unique_products(region_products, {})
    /\ UNCHANGED <<ri, ci, total_synced, errors, upserted, fetch_log, exit_status>>
    /\ UNCHANGED <<fetchVars, clientVars, upsertVars, defects>>

(***************************************************************************)
(* upsert_products and SupabaseClient.upsert                               *)
(***************************************************************************)
\* safe_str
safe_str(x, default) == IF x.t = "none" THEN default ELSE x.v

\* str(value), for the values whose rendering the model carries.
str(x) == IF x.t = "none" THEN "None" ELSE x.v

(***************************************************************************)
(* int(str) and float(str) over strings given by their characters.  The    *)
(* characters are lower case; exponents ("1e5") and digit-group            *)
(* underscores ("1_000") are outside the strings the model feeds in.       *)
(* A float is kept to the hundredth.                                       *)
(***************************************************************************)
Digits == {"0", "1", "2", "3", "4", "5", "6", "7", "8", "9"}
Whitespace == {" "}

DigitVal(c) == CHOOSE d \in 0..9 : ToString(d) = c

RECURSIVE DigitsVal(_)
DigitsVal(cs) ==
    IF cs = <<>> THEN 0
    ELSE DigitsVal(SubSeq(cs, 1, Len(cs) - 1)) * 10 + DigitVal(cs[Len(cs)])

AllDigits(cs) == cs # <<>> /\ \A k \in 1..Len(cs) : cs[k] \in Digits

\* value.replace(c, "")
Remove(cs, c) == SelectSeq(cs, LAMBDA x : x # c)

\* value.strip()
RECURSIVE LStrip(_)
LStrip(cs) == IF cs # <<>> /\ Head(cs) \in Whitespace THEN LStrip(Tail(cs)) ELSE cs

RECURSIVE RStrip(_)
RStrip(cs) ==
    IF cs # <<>> /\ cs[Len(cs)] \in Whitespace THEN RStrip(SubSeq(cs, 1, Len(cs) - 1)) ELSE cs

Strip(cs) == RStrip(LStrip(cs))

Unsigned(cs) == IF cs # <<>> /\ Head(cs) \in {"+", "-"} THEN Tail(cs) ELSE cs
SignOf(cs) == IF cs # <<>> /\ Head(cs) = "-" THEN -1 ELSE 1

\* int(s) succeeds: optional whitespace, optional sign, digits.
IntLiteral(cs) == AllDigits(Unsigned(Strip(cs)))
IntOf(cs) == SignOf(Strip(cs)) * DigitsVal(Unsigned(Strip(cs)))

\* digits [. digits] or . digits
DotAt(cs) ==
    IF \E k \in 1..Len(cs) : cs[k] = "."
      THEN CHOOSE k \in 1..Len(cs) : cs[k] = "." /\ \A m \in 1..(k - 1) : cs[m] # "."
      ELSE Len(cs) + 1
IntPart(cs) == SubSeq(cs, 1, DotAt(cs) - 1)
FracPart(cs) == SubSeq(cs, DotAt(cs) + 1, Len(cs))

IsDecimal(cs) ==
    /\ \A k \in 1..Len(IntPart(cs)) : IntPart(cs)[k] \in Digits
    /\ \A k \in 1..Len(FracPart(cs)) : FracPart(cs)[k] \in Digits
    /\ Len(IntPart(cs)) + Len(FracPart(cs)) > 0

Hundredths(cs) ==
    LET f == FracPart(cs)
    IN  DigitsVal(IntPart(cs)) * 100
          + (IF Len(f) >= 1 THEN DigitVal(f[1]) * 10 ELSE 0)
          + (IF Len(f) >= 2 THEN DigitVal(f[2]) ELSE 0)

NanWords == { <<"n", "a", "n">> }
InfWords == { <<"i", "n", "f">>, <<"i", "n", "f", "i", "n", "i", "t", "y">> }

\* float(s) succeeds
FloatLiteral(cs) ==
    LET u == Unsigned(Strip(cs))
    IN  u \in NanWords \/ u \in InfWords \/ IsDecimal(u)

FloatOf(cs) ==
    LET u == Unsigned(Strip(cs))
    IN  IF u \in NanWords THEN PyNaN
        ELSE IF u \in InfWords THEN PyInf(SignOf(Strip(cs)))
        ELSE PyFloat(SignOf(Strip(cs)) * Hundredths(u))

\* int(float), truncating toward zero
Trunc(h) == IF h >= 0 THEN h \div 100 ELSE -((-h) \div 100)

\* safe_int: int(value) raises OverflowError on an infinity, which the
\* except clause (ValueError, TypeError) does not catch.
SafeIntRaises(value) == value.t = "inf"

safe_int(value, default) ==
    CASE value.t = "none" -> default
      [] value.t \in {"int", "hugeint"} -> value
      [] value.t = "float" -> PyInt(Trunc(value.n))
      [] value.t = "nan" -> default
      [] value.t = "chars" ->
           IF IntLiteral(value.v) THEN PyInt(IntOf(value.v)) ELSE default
      [] value.t \in {"list", "array"} -> default

\* safe_float: float(value) raises OverflowError on an int beyond the
\* range of float.
SafeFloatRaises(value) == value.t = "hugeint"

safe_float(value, default) ==
    CASE value.t = "none" -> default
      [] value.t = "chars" ->
           LET cleaned == Strip(Remove(Remove(value.v, "$"), ","))
           IN  IF cleaned = <<>> THEN default
               ELSE IF FloatLiteral(cleaned) THEN FloatOf(cleaned) ELSE default
      [] value.t = "int" -> PyFloat(value.n * 100)
      [] value.t \in {"float", "inf", "nan"} -> value
      [] value.t \in {"list", "array"} -> default

\* get_first_from_array that takes the last element.
GetLastFromArray(value, default) ==
    CASE value.t = "none" -> default
      [] value.t = "array" ->
           IF value.v # <<>> THEN str(value.v[Len(value.v)]) ELSE default
      [] OTHER -> str(value)

\* get_first_from_array
get_first_from_array(value, default) ==
    CASE value.t = "none" -> default
      [] value.t = "array" -> IF value.v # <<>> THEN str(value.v[1]) ELSE default
      [] OTHER -> str(value)

\* The fields transform_product converts with safe_int and with safe_float.
IntFields == {"sold_count", "day7_sold_count", "day28_sold_count", "review_count"}
FloatFields == {"price", "sale_amount", "day7_sale_amount", "product_rating"}

\* product.get("relate_author_count") or product.get("author_count") or 0
author_count(p) ==
    PyOr(PyOr(Get(p, "relate_author_count"), Get(p, "author_count")), PyInt(0))

\* transform_product raises: a conversion raises an exception its helper
\* does not catch, and the except clause of transform_product re-raises.
TransformRaises(p) ==
    \/ \E f \in IntFields : SafeIntRaises(Get(p, f))
    \/ \E f \in FloatFields : SafeFloatRaises(Get(p, f))
    \/ SafeIntRaises(author_count(p))

\* transform_product: the canonical record (last_synced_at, the wall-clock
\* time of the call, is left out).
transform_product(p, reg) ==
    [product_id |-> safe_str(GetProductId(p), ""),
     region |-> reg,
     title |-> safe_str(Get(p, "title"), ""),
     img |-> safe_str(Get(p, "img"), ""),
     price |-> safe_float(Get(p, "price"), PyFloat(0)),
     currency |-> safe_str(Get(p, "currency"), "USD"),
     sold_count |-> safe_int(Get(p, "sold_count"), PyInt(0)),
     day7_sold_count |-> safe_int(Get(p, "day7_sold_count"), PyInt(0)),
     day28_sold_count |-> safe_int(Get(p, "day28_sold_count"), PyInt(0)),
     sale_amount |-> safe_float(Get(p, "sale_amount"), PyFloat(0)),
     day7_sale_amount |-> safe_float(Get(p, "day7_sale_amount"), PyFloat(0)),
     category_l1 |-> get_first_from_array(
                        PyOr(Get(p, "category_name_l1"), Get(p, "category_l1")), ""),
     category_l2 |-> get_first_from_array(
                        PyOr(Get(p, "category_name_l2"), Get(p, "category_l2")), ""),
     category_l3 |-> get_first_from_array(
                        PyOr(Get(p, "category_name_l3"), Get(p, "category_l3")), ""),
     category_l1_id |-> safe_str(PyOr(PyOr(Get(p, "category_id"), Get(p, "category_l1_id")),
                                      PyStr("")), ""),
     shop_name |-> safe_str(Get(p, "shop_name"), ""),
     shop_id |-> safe_str(Get(p, "shop_id"), ""),
     product_rating |-> safe_float(Get(p, "product_rating"), PyFloat(0)),
     review_count |-> safe_int(Get(p, "review_count"), PyInt(0)),
     relate_author_count |-> safe_int(author_count(p), PyInt(0)),
     commission_rate |-> str(PyOr(PyOr(Get(p, "crate"), Get(p, "commission_rate")),
                                  PyStr(""))),
     detail_url |-> safe_str(Get(p, "detail_url"), "")]

\* The transformation loop: records without product_id are skipped.
HasProductId(t) == t.product_id # ""

\* The transformation loop: a record whose transformation raises is
\* skipped (`except Exception: continue`), as is one without product_id.
transform_all(prods, reg) ==
    LET converted == SelectSeq(prods, LAMBDA p : ~TransformRaises(p))
    IN  SelectSeq([k \in 1..Len(converted) |-> transform_product(converted[k], reg)],
                  HasProductId)

\* merge_write that inserts the batch without resolving conflicts.
MergeWriteAppends(rows, batch) == rows \cup { batch[k] : k \in 1..Len(batch) }

\* The rows of the store after a merge-write of batch (on_conflict =
\* product_id, resolution = merge-duplicates: the written row replaces the
\* row with its product_id; within the batch the later record wins).
merge_write(rows, batch) ==
    LET ids == { batch[k].product_id : k \in 1..Len(batch) }
        last(id) == CHOOSE k \in 1..Len(batch) :
                       /\ batch[k].product_id = id
                       /\ \A m \in (k + 1)..Len(batch) : batch[m].product_id # id
    IN  { r \in rows : r.product_id \notin ids } \cup { batch[last(id)] : id \in ids }

(***************************************************************************)
(* Image rehosting (src/sync.py, process_product_image and its callees)    *)
(*                                                                         *)
(* An image URL is a string; UrlChars gives the characters of the URLs     *)
(* the upstream records of the model carry, so that the substring tests    *)
(* and the path of urlparse are computed on the text. The MD5 digest is    *)
(* tabulated (Md5Hex8) with the digests hashlib gives for these URLs.      *)
(***************************************************************************)
IMAGE_BUCKET == "product-images"

\* config.SUPABASE_URL, read from the environment: the project URL.
SUPABASE_URL == "https://xyz.supabase.co"

ImageUrls ==
    {"",
     "https://cdn.fastmoss.com/img/a.png",
     "https://cdn.fastmoss.com/img/b",
     "https://cdn.fastmoss.com/img/c.gif?v=1.png",
     "https://cdn.fastmoss.com/img/d.WEBP",
     "https://xyz.supabase.co/img/e.jpg"}

\* The characters of a URL.
UrlChars(url) ==
    CASE url = "" -> <<>>
      [] url = "https://cdn.fastmoss.com/img/a.png" ->
            <<"h", "t", "t", "p", "s", ":", "/", "/", "c", "d", "n", ".", "f",
              "a", "s", "t", "m", "o", "s", "s", ".", "c", "o", "m", "/", "i",
              "m", "g", "/", "a", ".", "p", "n", "g">>
      [] url = "https://cdn.fastmoss.com/img/b" ->
            <<"h", "t", "t", "p", "s", ":", "/", "/", "c", "d", "n", ".", "f",
              "a", "s", "t", "m", "o", "s", "s", ".", "c", "o", "m", "/", "i",
              "m", "g", "/", "b">>
      [] url = "https://cdn.fastmoss.com/img/c.gif?v=1.png" ->
            <<"h", "t", "t", "p", "s", ":", "/", "/", "c", "d", "n", ".", "f",
              "a", "s", "t", "m", "o", "s", "s", ".", "c", "o", "m", "/", "i",
              "m", "g", "/", "c", ".", "g", "i", "f", "?", "v", "=", "1", ".",
              "p", "n", "g">>
      [] url = "https://cdn.fastmoss.com/img/d.WEBP" ->
            <<"h", "t", "t", "p", "s", ":", "/", "/", "c", "d", "n", ".", "f",
              "a", "s", "t", "m", "o", "s", "s", ".", "c", "o", "m", "/", "i",
              "m", "g", "/", "d", ".", "W", "E", "B", "P">>
      [] url = "https://xyz.supabase.co/img/e.jpg" ->
            <<"h", "t", "t", "p", "s", ":", "/", "/", "x", "y", "z", ".", "s",
              "u", "p", "a", "b", "a", "s", "e", ".", "c", "o", "/", "i", "m",
              "g", "/", "e", ".", "j", "p", "g">>

\* hashlib.md5(original_url.encode()).hexdigest()[:8]
Md5Hex8(url) ==
    CASE url = "" -> "d41d8cd9"
      [] url = "https://cdn.fastmoss.com/img/a.png" -> "e5d11ca0"
      [] url = "https://cdn.fastmoss.com/img/b" -> "b6fa5093"
      [] url = "https://cdn.fastmoss.com/img/c.gif?v=1.png" -> "d07b352f"
      [] url = "https://cdn.fastmoss.com/img/d.WEBP" -> "87e78e39"
      [] url = "https://xyz.supabase.co/img/e.jpg" -> "3f7bd071"

\* `needle in text` on character sequences.
Contains(text, needle) ==
    \E k \in 0..(Len(text) - Len(needle)) : SubSeq(text, k + 1, k + Len(needle)) = needle

\* The first position from `from` on that holds one of stops; Len + 1 when
\* there is none.
FirstOf(text, stops, from) ==
    LET hits == { k \in from..Len(text) : text[k] \in stops }
    IN  IF hits = {} THEN Len(text) + 1
        ELSE CHOOSE k \in hits : \A m \in hits : k <= m

\* urlparse(url).path of a URL scheme://netloc/path?query#fragment: what
\* follows the network location up to the query or the fragment.
UrlPath(text) ==
    LET colon == FirstOf(text, {":"}, 1)
        absolute == /\ colon + 2 <= Len(text)
                    /\ SubSeq(text, colon, colon + 2) = <<":", "/", "/">>
        start == IF absolute THEN FirstOf(text, {"/", "?", "#"}, colon + 3) ELSE 1
        stop == FirstOf(text, {"?", "#"}, start)
    IN  SubSeq(text, start, stop - 1)

\* str.lower() on the letters that occur in the URLs.
LowerChar(c) ==
    CASE c = "W" -> "w" [] c = "E" -> "e" [] c = "B" -> "b" [] c = "P" -> "p"
      [] c = "N" -> "n" [] c = "G" -> "g" [] c = "I" -> "i" [] c = "F" -> "f"
      [] c = "J" -> "j" [] OTHER -> c

Lower(text) == [k \in 1..Len(text) |-> LowerChar(text[k])]

\* The extension chosen by get_image_filename from the lower-cased path.
extension(url) ==
    LET path == Lower(UrlPath(UrlChars(url)))
    IN  IF Contains(path, <<".", "p", "n", "g">>) THEN "png"
        ELSE IF Contains(path, <<".", "w", "e", "b", "p">>) THEN "webp"
        ELSE IF Contains(path, <<".", "g", "i", "f">>) THEN "gif"
        ELSE "jpg"

\* f"{product_id}_{url_hash}.{ext}"
get_image_filename(product_id, original_url) ==
    product_id \o "_" \o Md5Hex8(original_url) \o "." \o extension(original_url)

\* The public URL upload_image returns for a stored object.
public_url(bucket, path) ==
    SUPABASE_URL \o "/storage/v1/object/public/" \o bucket \o "/" \o path

\* How the two HTTP exchanges of one process_product_image call can end.
ImageOutcomes == {"stored", "download_fails", "upload_fails"}

\* download_image: None for an empty URL (no request), None when the
\* request fails or is answered with an error status (every Exception is
\* caught), the image otherwise.
download_image(url, outcome) ==
    IF url = "" THEN "none"
    ELSE IF outcome = "download_fails" THEN "failed"
    ELSE "ok"

\* upload_image: the public URL when the POST succeeds, None ("") when it
\* fails or raises (every Exception is caught).
upload_image(bucket, path, outcome) ==
    IF outcome = "upload_fails" THEN "" ELSE public_url(bucket, path)

\* AlreadyRehosted that never recognises a stored image.
NeverRehosted(original_url) == FALSE

\* `"supabase" in original_url`
AlreadyRehosted(original_url) ==
    Contains(UrlChars(original_url), <<"s", "u", "p", "a", "b", "a", "s", "e">>)

\* The record of a call that made no request.
Untouched(product) ==
    [product_id |-> product.product_id, original |-> product.img,
     result |-> product.img, download |-> "none", upload |-> "none", key |-> ""]

\* process_product_image that returns what upload_image returned, None
\* ("") included.
ProcessImageLosesUrl(product, outcome) ==
    LET filename == get_image_filename(product.product_id, product.img)
        new_url == upload_image(IMAGE_BUCKET, filename, outcome)
    IN  IF product.img = "" \/ product.product_id = "" THEN Untouched(product)
        ELSE IF AlreadyRehosted(product.img) THEN Untouched(product)
        ELSE IF download_image(product.img, outcome) # "ok"
          THEN [Untouched(product) EXCEPT !.download = "failed"]
        ELSE [product_id |-> product.product_id, original |-> product.img,
              result |-> new_url,
              download |-> "ok",
              upload |-> IF new_url # "" THEN "ok" ELSE "failed",
              key |-> filename]

\* process_product_image(supabase, product): the URL it returns (result)
\* and the requests it made, under the given outcome of the exchanges.
process_product_image(product, outcome) ==
    LET original_url == product.img
        product_id == product.product_id
        filename == get_image_filename(product_id, original_url)
        new_url == upload_image(IMAGE_BUCKET, filename, outcome)
    IN  IF original_url = "" \/ product_id = "" THEN Untouched(product)
        ELSE IF AlreadyRehosted(original_url) THEN Untouched(product)
        ELSE IF download_image(original_url, outcome) # "ok"
          THEN [Untouched(product) EXCEPT !.download = "failed"]
        ELSE [product_id |-> product_id, original |-> original_url,
              result |-> IF new_url # "" THEN new_url ELSE original_url,
              download |-> "ok",
              upload |-> IF new_url # "" THEN "ok" ELSE "failed",
              key |-> filename]

\* The records of the image loop whose call reaches the download.
Downloads(ts) ==
    { k \in 1..Len(ts) : /\ ts[k].img # ""
                         /\ ts[k].product_id # ""
                         /\ ~AlreadyRehosted(ts[k].img) }

\* The image loop of upsert_products: every record's img is replaced by
\* what process_product_image returns; then the batch loop starts.
ProcessImages ==
    /\ pc = "images"
    /\ \E outs \in [Downloads(transformed) -> ImageOutcomes] :
          LET outcome(k) == IF k \in DOMAIN outs THEN outs[k] ELSE "stored"
              done == [k \in 1..Len(transformed) |->
                          process_product_image(transformed[k], outcome(k))]
          IN  /\ transformed' = [k \in 1..Len(transformed) |->
                                    [transformed[k] EXCEPT !.img = done[k].result]]
              /\ rehosts' = rehosts \o [k \in 1..Len(done) |->
                                           [call |-> ri] @@ done[k]]
    /\ pc' = "chunk"
    /\ UNCHANGED <<runVars, fetchVars, clientVars, i, total_upserted, store, writes, other>>
    /\ UNCHANGED defects

\* After the region's upsert (or its error): the next region.
NextRegion ==
    /\ ri' = ri + 1
    /\ pc' = "region"
    /\ UNCHANGED <<ci, region_products, fetch_log, exit_status>>

\* `if region_products:` and the call of upsert_products up to its image
\* loop.
Upsert ==
    /\ pc = "upsert"
    /\ IF region_products = <<>>
         THEN /\ NextRegion
              /\ UNCHANGED <<total_synced, errors, upserted, transformed, i, total_upserted>>
         ELSE LET ts == transform_all(region_products, region)
              IN  /\ transformed' = ts
                  /\ i' = 0
                  /\ total_upserted' = 0
                  /\ IF ts = <<>>
                       THEN \* return 0
                            NextRegion /\ upserted' = 0 /\ UNCHANGED <<total_synced, errors>>
                       ELSE pc' = "images" /\ UNCHANGED runVars
    /\ UNCHANGED <<store, writes, rehosts, other, fetchVars, clientVars, defects>>

\* batch_at with an inclusive upper end: transformed[i:i + batch_size + 1].
BatchAtInclusive(ts, k) == SubSeq(ts, k + 1, Min(k + batch_size + 1, Len(ts)))

\* transformed[i:i + batch_size]
batch_at(ts, k) == SubSeq(ts, k + 1, Min(k + batch_size, Len(ts)))

\* One pass of the batch loop whose write succeeds; after the last batch
\* upsert_products returns total_upserted and run_sync adds it.
ChunkWritten(lat) ==
    /\ pc = "chunk"
    /\ i < Len(transformed)
    /\ LET batch == batch_at(transformed, i)
       IN  /\ store' = merge_write(store, batch)
           /\ writes' = Append(writes, [call |-> ri, batch |-> batch, ok |-> TRUE])
           /\ total_upserted' = total_upserted + Len(batch)
           /\ i' = i + batch_size
           /\ IF i + batch_size < Len(transformed)
                THEN pc' = "chunk" /\ UNCHANGED runVars
                ELSE /\ upserted' = total_upserted + Len(batch)
                     /\ total_synced' = total_synced + total_upserted + Len(batch)
                     /\ NextRegion
                     /\ UNCHANGED errors
    /\ elapsed' = Advance(elapsed, lat)
    /\ UNCHANGED <<transformed, rehosts, other, fetchVars>>
    /\ UNCHANGED <<attempt, served, req_gap, call, backoffs>>
    /\ UNCHANGED defects

\* ChunkFails that logs the error and goes on with the next batch.
ChunkFailsSwallowed(lat) ==
    /\ pc = "chunk"
    /\ i < Len(transformed)
    /\ writes' = Append(writes, [call |-> ri, batch |-> batch_at(transformed, i), ok |-> FALSE])
    /\ i' = i + batch_size
    /\ IF i + batch_size < Len(transformed)
         THEN pc' = "chunk" /\ UNCHANGED runVars
         ELSE /\ upserted' = total_upserted
              /\ total_synced' = total_synced + total_upserted
              /\ NextRegion
              /\ UNCHANGED errors
    /\ elapsed' = Advance(elapsed, lat)
    /\ UNCHANGED <<transformed, total_upserted, store>>
    /\ UNCHANGED <<rehosts, other, fetchVars, attempt, served, req_gap, call, backoffs, defects>>

\* One pass whose write fails: raise_for_status (or the transport) raises,
\* both except clauses re-raise, run_sync records the error.
ChunkFails(lat) ==
    /\ pc = "chunk"
    /\ i < Len(transformed)
    /\ writes' = Append(writes, [call |-> ri, batch |-> batch_at(transformed, i), ok |-> FALSE])
    /\ errors' = Append(errors, UpsertError(region))
    /\ NextRegion
    /\ elapsed' = Advance(elapsed, lat)
    /\ UNCHANGED <<total_synced, upserted, transformed, i, total_upserted, store>>
    /\ UNCHANGED <<rehosts, other, fetchVars, attempt, served, req_gap, call, backoffs, defects>>

(***************************************************************************)
(* A second run of the sync on the same table. It shares nothing with this *)
(* run but the store; of its upsert_products call only the batch loop is   *)
(* kept, each POST being one write of the store (call 0 in writes).        *)
(***************************************************************************)
\* One pass of the second run's batch loop whose write succeeds.
OtherChunkWritten ==
    /\ other.i < Len(other.transformed)
    /\ LET batch == batch_at(other.transformed, other.i)
       IN  /\ store' = merge_write(store, batch)
           /\ writes' = Append(writes, [call |-> 0, batch |-> batch, ok |-> TRUE])
    /\ other' = [other EXCEPT !.i = other.i + batch_size]
    /\ UNCHANGED <<pc, runVars, fetchVars, clientVars, defects>>
    /\ UNCHANGED <<transformed, i, total_upserted, rehosts>>

\* One pass of the second run's batch loop whose write fails: the
\* exception ends its upsert_products call.
OtherChunkFails ==
    /\ other.i < Len(other.transformed)
    /\ writes' = Append(writes, [call |-> 0, batch |-> batch_at(other.transformed, other.i),
                                 ok |-> FALSE])
    /\ other' = [other EXCEPT !.i = Len(other.transformed)]
    /\ UNCHANGED <<pc, runVars, fetchVars, clientVars, defects>>
    /\ UNCHANGED <<transformed, i, total_upserted, store, rehosts>>

(***************************************************************************)
(* main (src/main.py)                                                      *)
(***************************************************************************)
\* exit_code that looks at the exception only.
ExitCodeIgnoresErrors(raised, errs) == IF raised THEN 1 ELSE 0

\* The status main exits with: 1 when run_sync raised (`except Exception`)
\* or returned a non-empty error list (`if errors:`), 0 otherwise.
exit_code(raised, errs) == IF raised \/ errs # <<>> THEN 1 ELSE 0

\* main after run_sync returned or raised: sys.exit.
Exit ==
    /\ pc \in {"done", "raised"}
    /\ exit_status = -1
    /\ exit_status' = exit_code(pc = "raised", errors)
    /\ UNCHANGED <<pc, ri, ci, total_synced, errors, region_products, upserted, fetch_log>>
    /\ UNCHANGED <<fetchVars, clientVars, upsertVars, defects>>

(***************************************************************************)
(* The run                                                                 *)
(***************************************************************************)
Latencies == 0..MaxLatency

Next ==
    \/ RegionLoop
    \/ CategoryLoop
    \/ PageLoop
    \/ \E exc \in TransportFailures, lat \in Latencies : AttemptFails(exc, lat)
    \/ \E lat \in Latencies : AttemptBadJson(lat)
    \/ \E body \in BareBodies, lat \in Latencies : ServesBare(body, lat)
    \/ \E code \in Codes, key \in ArrayKeys, n \in PageLengths, lat \in Latencies :
          ServesPage(code, key, n, lat)
    \/ \E code \in Codes, key \in ArrayKeys, n \in PageLengths,
          defect \in Defects, pos \in DefectPositions, lat \in Latencies :
          ServesDefect(code, key, n, defect, pos, lat)
    \/ PageBody
    \/ Dedupe
    \/ Upsert
    \/ \E lat \in Latencies : ChunkWritten(lat)
    \/ \E lat \in Latencies : ChunkFails(lat)
    \/ ProcessImages
    \/ Exit

Spec == Init /\ [][Next]_vars

(***************************************************************************)
(* The batch loop at scale: run_sync on reaching the upsert of its last    *)
(* region with a deduplicated batch of n records (a run whose              *)
(* SYNC_LIMIT_PER_REGION lets n records through), nothing synced before.   *)
(***************************************************************************)
LastRegion == Len(FASTMOSS_REGIONS)
LastCategory == Len(FASTMOSS_CATEGORIES)

InitUpsert ==
    /\ pc = "upsert"
    /\ ri = LastRegion
    /\ ci = LastCategory + 1
    /\ \E n \in 1..MaxRecords :
          region_products = [k \in 1..n |-> RawMapping(PyStr(ToString(k)))]
    /\ total_synced = 0
    /\ errors = <<>>
    /\ upserted = -1
    /\ fetch_log = <<>>
    /\ exit_status = -1
    /\ limit = 0
    /\ products = <<>>
    /\ page = 1
    /\ response = NoBody
    /\ fetched = <<>>
    /\ returned = <<>>
    /\ requested = <<>>
    /\ page_sleeps = 0
    /\ attempt = 0
    /\ elapsed = 0
    /\ served = NotServed
    /\ req_gap = ElapsedCap
    /\ call = NoCall
    /\ backoffs = <<>>
    /\ transformed = <<>>
    /\ i = 0
    /\ total_upserted = 0
    /\ store = {}
    /\ writes = <<>>
    /\ rehosts = <<>>
    /\ other = NoOtherRun
    /\ defects = 0

NextUpsert ==
    \/ Upsert
    \/ ProcessImages
    \/ \E lat \in Latencies : ChunkWritten(lat)
    \/ \E lat \in Latencies : ChunkFails(lat)
    \/ RegionLoop

SpecUpsert == InitUpsert /\ [][NextUpsert]_vars

(***************************************************************************)
(* The page loop for every limit: run_sync on entering                     *)
(* fetch_products_for_region_category for the last category of its last    *)
(* region with limit_per_category = limit (a run whose                     *)
(* SYNC_LIMIT_PER_REGION gives that limit), nothing fetched before.        *)
(***************************************************************************)
InitFetch ==
    /\ pc = "page"
    /\ ri = LastRegion
    /\ ci = LastCategory
    /\ limit \in 0..MaxLimit
    /\ region_products = <<>>
    /\ total_synced = 0
    /\ errors = <<>>
    /\ upserted = -1
    /\ fetch_log = <<>>
    /\ exit_status = -1
    /\ products = <<>>
    /\ page = 1
    /\ response = NoBody
    /\ fetched = <<>>
    /\ returned = <<>>
    /\ requested = <<>>
    /\ page_sleeps = 0
    /\ attempt = 0
    /\ elapsed \in {0, ElapsedCap}    \* a request was just made, or none yet
    /\ served = NotServed
    /\ req_gap = ElapsedCap
    /\ call = NoCall
    /\ backoffs = <<>>
    /\ transformed = <<>>
    /\ i = 0
    /\ total_upserted = 0
    /\ store = {}
    /\ writes = <<>>
    /\ rehosts = <<>>
    /\ other = NoOtherRun
    /\ defects = 0

SpecFetch == InitFetch /\ [][Next]_vars

(***************************************************************************)
(* Deduplication and what follows it: run_sync on reaching the             *)
(* deduplication block of a region with up to MaxCollected raw records     *)
(* collected, whose product_id is a string, a number, an empty string or   *)
(* missing, and whose title tells their position.                          *)
(***************************************************************************)
ProductIds == {PyStr("1"), PyStr("2"), PyInt(1), PyInt(0), PyStr(""), PyNone}

RawTitled(pid, title) == [kind |-> "mapping", product_id |-> pid, title |-> PyStr(title)]

InitDedupe ==
    /\ pc = "dedupe"
    /\ ri \in { r \in 1..Len(FASTMOSS_REGIONS) : FASTMOSS_REGIONS[r] # "" }
    /\ ci = LastCategory + 1
    /\ \E n \in 1..MaxCollected : \E pids \in [1..n -> ProductIds] :
          region_products = [k \in 1..n |-> RawTitled(pids[k], ToString(k))]
    /\ total_synced = 0
    /\ errors = <<>>
    /\ upserted = -1
    /\ fetch_log = <<>>
    /\ exit_status = -1
    /\ limit = 0
    /\ products = <<>>
    /\ page = 1
    /\ response = NoBody
    /\ fetched = <<>>
    /\ returned = <<>>
    /\ requested = <<>>
    /\ page_sleeps = 0
    /\ attempt = 0
    /\ elapsed = 0
    /\ served = NotServed
    /\ req_gap = ElapsedCap
    /\ call = NoCall
    /\ backoffs = <<>>
    /\ transformed = <<>>
    /\ i = 0
    /\ total_upserted = 0
    /\ store = {}
    /\ writes = <<>>
    /\ rehosts = <<>>
    /\ other = NoOtherRun
    /\ defects = 0

NextDedupe ==
    \/ Dedupe
    \/ Upsert
    \/ ProcessImages
    \/ \E lat \in Latencies : ChunkWritten(lat)
    \/ \E lat \in Latencies : ChunkFails(lat)
    \/ RegionLoop

SpecDedupe == InitDedupe /\ [][NextDedupe]_vars

(***************************************************************************)
(* transform_product over the value shapes of the upstream: run_sync on    *)
(* reaching the upsert of its last region with one raw record, whose       *)
(* fields are drawn from the shapes a JSON body can carry.  A field that   *)
(* is None is absent or null: product.get gives None for both.             *)
(***************************************************************************)
\* What a price-like field may carry.
FloatInputs ==
    { PyNone, PyInt(27), PyInt(-3), PyFloat(2735), PyFloat(-150), PyNaN, PyInf(1),
      PyHugeInt, PyArray(<<>>),
      PyChars(<<"$", "2", "7", ".", "3", "5">>),
      PyChars(<<"2", "7", ".", "3", "5">>),
      PyChars(<<"$", "1", ",", "2", "9", "9", ".", "5">>),
      PyChars(<<" ", "4", "2", " ">>),
      PyChars(<<"b", "o", "g", "u", "s">>),
      PyChars(<<>>),
      PyChars(<<"$">>),
      PyChars(<<"-", "5">>),
      PyChars(<<"1", ".", "2", ".", "3">>),
      PyChars(<<"n", "a", "n">>) }

\* What a count field may carry.
IntInputs ==
    { PyNone, PyInt(12), PyInt(0), PyInt(-3), PyFloat(370), PyFloat(-250), PyNaN,
      PyInf(1), PyHugeInt, PyArray(<<>>),
      PyChars(<<"1", "2">>),
      PyChars(<<" ", "1", "2", " ">>),
      PyChars(<<"-", "4">>),
      PyChars(<<"3", ".", "7">>),
      PyChars(<<"1", ",", "2", "3", "4">>),
      PyChars(<<"b", "o", "g", "u", "s">>),
      PyChars(<<>>) }

\* Records that differ in their numeric fields.
NumericRecords ==
    { [kind |-> "mapping", product_id |-> PyStr("1"), title |-> PyStr("t"),
       price |-> price, sold_count |-> sold, day7_sold_count |-> sold7] :
         price \in FloatInputs, sold \in IntInputs, sold7 \in {PyNone, PyInt(3)} }

\* Records that carry the newer alias, the legacy alias or both.
AliasRecords ==
    { [kind |-> "mapping", product_id |-> PyStr("1"),
       crate |-> cr, commission_rate |-> com,
       relate_author_count |-> rel, author_count |-> aut,
       category_id |-> cid, category_l1_id |-> cl1] :
         cr \in {PyNone, PyStr("13%")}, com \in {PyNone, PyStr("10%")},
         rel \in {PyNone, PyInt(5), PyInt(0)}, aut \in {PyNone, PyInt(7)},
         cid \in {PyNone, PyStr("14")}, cl1 \in {PyNone, PyStr("99")} }

\* What a category name field may carry.
CategoryInputs ==
    { PyNone, PyStr("Beauty"), PyArray(<<>>), PyArray(<<PyStr("Beauty"), PyStr("Other")>>),
      PyArray(<<PyStr("Skin")>>), PyArray(<<PyInt(7), PyStr("Other")>>) }

\* Records that differ in their category names.
CategoryRecords ==
    { [kind |-> "mapping", product_id |-> PyStr("1"),
       category_name_l1 |-> n1, category_l1 |-> l1,
       category_name_l2 |-> n2, category_l3 |-> l3] :
         n1 \in CategoryInputs, l1 \in {PyNone, PyStr("Legacy"), PyArray(<<PyStr("Old")>>)},
         n2 \in {PyNone, PyArray(<<>>)}, l3 \in CategoryInputs }

InitTransform ==
    /\ pc = "upsert"
    /\ ri = LastRegion
    /\ ci = LastCategory + 1
    /\ \E p \in NumericRecords \cup AliasRecords \cup CategoryRecords :
          region_products = <<p>>
    /\ total_synced = 0
    /\ errors = <<>>
    /\ upserted = -1
    /\ fetch_log = <<>>
    /\ exit_status = -1
    /\ limit = 0
    /\ products = <<>>
    /\ page = 1
    /\ response = NoBody
    /\ fetched = <<>>
    /\ returned = <<>>
    /\ requested = <<>>
    /\ page_sleeps = 0
    /\ attempt = 0
    /\ elapsed = 0
    /\ served = NotServed
    /\ req_gap = ElapsedCap
    /\ call = NoCall
    /\ backoffs = <<>>
    /\ transformed = <<>>
    /\ i = 0
    /\ total_upserted = 0
    /\ store = {}
    /\ writes = <<>>
    /\ rehosts = <<>>
    /\ other = NoOtherRun
    /\ defects = 0

SpecTransform == InitTransform /\ [][NextUpsert]_vars

(***************************************************************************)
(* The image loop: run_sync on reaching the upsert of its last region      *)
(* with one or two deduplicated records that carry image URLs, after the   *)
(* upsert of its first region wrote one record; rehosts, writes and store  *)
(* hold what that upsert left.                                             *)
(***************************************************************************)
ImageIds == {"1", "2"}

ImageRecord(id, url) == [kind |-> "mapping", product_id |-> PyStr(id), img |-> PyStr(url)]

ImageBatches ==
    { <<ImageRecord(id, url)>> : id \in ImageIds, url \in ImageUrls }
    \cup { <<ImageRecord("1", u1), ImageRecord("2", u2)>> : u1 \in ImageUrls, u2 \in ImageUrls }

FirstRegion == 1

InitImages ==
    /\ pc = "upsert"
    /\ ri = LastRegion
    /\ ci = LastCategory + 1
    /\ region_products \in ImageBatches
    /\ \E url \in ImageUrls, outcome \in ImageOutcomes :
          LET before == transform_product(ImageRecord("1", url), FASTMOSS_REGIONS[FirstRegion])
              done == process_product_image(before, outcome)
              row == [before EXCEPT !.img = done.result]
          IN  /\ rehosts = <<[call |-> FirstRegion] @@ done>>
              /\ writes = <<[call |-> FirstRegion, batch |-> <<row>>, ok |-> TRUE]>>
              /\ store = {row}
    /\ other = NoOtherRun
    /\ total_synced = 1
    /\ errors = <<>>
    /\ upserted = -1
    /\ fetch_log = <<>>
    /\ exit_status = -1
    /\ limit = 0
    /\ products = <<>>
    /\ page = 1
    /\ response = NoBody
    /\ fetched = <<>>
    /\ returned = <<>>
    /\ requested = <<>>
    /\ page_sleeps = 0
    /\ attempt = 0
    /\ elapsed = 0
    /\ served = NotServed
    /\ req_gap = ElapsedCap
    /\ call = NoCall
    /\ backoffs = <<>>
    /\ transformed = <<>>
    /\ i = 0
    /\ total_upserted = 0
    /\ defects = 0

SpecImages == InitImages /\ [][NextUpsert]_vars

(***************************************************************************)
(* Two runs: run_sync on reaching the upsert of its last region with n     *)
(* deduplicated records while a second run of the sync is in the batch     *)
(* loop of the same region with m records, fetched at the same time        *)
(* ("old") or later ("new").                                               *)
(***************************************************************************)
TwoRunSizes == {2, 150}

Titles == {"old", "new"}

TitledBatch(n, title) == [k \in 1..n |-> RawTitled(PyStr(ToString(k)), title)]

InitTwoRuns ==
    /\ pc = "upsert"
    /\ ri = LastRegion
    /\ ci = LastCategory + 1
    /\ \E n \in TwoRunSizes : region_products = TitledBatch(n, "old")
    /\ \E m \in TwoRunSizes, title \in Titles :
          other = [transformed |-> transform_all(TitledBatch(m, title),
                                                 FASTMOSS_REGIONS[LastRegion]),
                   i |-> 0]
    /\ total_synced = 0
    /\ errors = <<>>
    /\ upserted = -1
    /\ fetch_log = <<>>
    /\ exit_status = -1
    /\ limit = 0
    /\ products = <<>>
    /\ page = 1
    /\ response = NoBody
    /\ fetched = <<>>
    /\ returned = <<>>
    /\ requested = <<>>
    /\ page_sleeps = 0
    /\ attempt = 0
    /\ elapsed = 0
    /\ served = NotServed
    /\ req_gap = ElapsedCap
    /\ call = NoCall
    /\ backoffs = <<>>
    /\ transformed = <<>>
    /\ i = 0
    /\ total_upserted = 0
    /\ store = {}
    /\ writes = <<>>
    /\ rehosts = <<>>
    /\ defects = 0

NextTwoRuns ==
    \/ Upsert
    \/ ProcessImages
    \/ \E lat \in Latencies : ChunkWritten(lat)
    \/ \E lat \in Latencies : ChunkFails(lat)
    \/ RegionLoop
    \/ OtherChunkWritten
    \/ OtherChunkFails

SpecTwoRuns == InitTwoRuns /\ [][NextTwoRuns]_vars

(***************************************************************************)
(* Properties                                                              *)
(***************************************************************************)
NonBlank(entries) == { k \in 1..Len(entries) : entries[k] # "" }
Regions == NonBlank(FASTMOSS_REGIONS)
Categories == NonBlank(FASTMOSS_CATEGORIES)

\* Number of records in the chunks written successfully by the calls in rs.
RECURSIVE WrittenUpTo(_, _)
WrittenUpTo(k, rs) ==
    IF k = 0 THEN 0
    ELSE WrittenUpTo(k - 1, rs)
           + (IF writes[k].ok /\ writes[k].call \in rs THEN Len(writes[k].batch) ELSE 0)

Written(rs) == WrittenUpTo(Len(writes), rs)

FailedWrite(r) == \E k \in 1..Len(writes) : writes[k].call = r /\ ~writes[k].ok

FetchEnded(r, c, how) ==
    \E k \in 1..Len(fetch_log) :
       fetch_log[k].r = r /\ fetch_log[k].c = c /\ fetch_log[k].result = how

\* Number of records the fetches of region r returned.
RECURSIVE CollectedUpTo(_, _)
CollectedUpTo(k, r) ==
    IF k = 0 THEN 0
    ELSE CollectedUpTo(k - 1, r) + (IF fetch_log[k].r = r THEN fetch_log[k].n ELSE 0)

Collected(r) == CollectedUpTo(Len(fetch_log), r)

FetchRaisedAll(r) == \A c \in Categories : FetchEnded(r, c, "raised")

ErrorsOf(r, c) ==
    { k \in 1..Len(errors) :
        errors[k] = FetchError(FASTMOSS_REGIONS[r], FASTMOSS_CATEGORIES[c]) }

\* C1: a region whose fetch raises for every category does not stop the run.
\* Each of its failures is one entry of errors; the run leaves the region
\* with nothing to upsert and goes on (an exception leaves run_sync only
\* from the deduplication block, never from a fetch); when the run returns,
\* every later region has been collected for each category, has been
\* written if it returned records, and total_synced is the sum of the
\* records written by the regions whose upsert returned.
C1_FailedRegionDoesNotStopRun ==
    /\ pc = "raised" => ci > LastCategory /\ region_products # <<>>
    /\ \A r \in Regions : FetchRaisedAll(r) =>
         /\ \A c \in Categories : Cardinality(ErrorsOf(r, c)) = 1
         /\ ri = r => pc \in {"category", "dedupe", "upsert"} /\ region_products = <<>>
         /\ pc = "done" =>
              /\ \A r2 \in Regions : r2 > r =>
                   /\ \A c \in Categories :
                        FetchEnded(r2, c, "returned") \/ FetchEnded(r2, c, "raised")
                   /\ Collected(r2) > 0 =>
                        \E k \in 1..Len(writes) : writes[k].call = r2
              /\ total_synced = Written({ r2 \in Regions : ~FailedWrite(r2) })

C1_Witness ==
    /\ pc = "done"
    /\ FetchRaisedAll(1)
    /\ Len(errors) = Cardinality(Categories)
    /\ total_synced > 0
    /\ \E k \in 1..Len(writes) : writes[k].call = LastRegion /\ writes[k].ok

\* C2: no exception escapes run_sync: the run never ends by raising.
C2_NoExceptionEscapes == pc # "raised"

\* C3: the count reported for a region whose chunk write failed is the
\* number of records written before the failure, and the total run_sync
\* returns includes it: the returned total is the number of records in the
\* chunks that were written.
C3_PartialCountReported ==
    pc = "done" => total_synced = Written(Regions)

\* C4: after a chunk write fails, no further chunk write is issued in that
\* call, the error reaches the caller (one entry of errors for the region),
\* and the records of the chunks already written are rows of the store.
C4_ChunkFailureAborts ==
    /\ \A k \in 1..Len(writes) : ~writes[k].ok =>
         /\ \A m \in (k + 1)..Len(writes) : writes[m].call # writes[k].call
         /\ Cardinality({ e \in 1..Len(errors) :
               errors[e] = UpsertError(FASTMOSS_REGIONS[writes[k].call]) }) = 1
    /\ \A k \in 1..Len(writes) : writes[k].ok =>
         \A m \in 1..Len(writes[k].batch) :
            \E row \in store : row.product_id = writes[k].batch[m].product_id

C4_Witness ==
    /\ pc = "done"
    /\ Len(writes) = 2
    /\ writes[1].ok
    /\ ~writes[2].ok
    /\ Cardinality(store) = batch_size

\* The batches of the writes issued, concatenated.
RECURSIVE BatchesUpTo(_)
BatchesUpTo(k) == IF k = 0 THEN <<>> ELSE BatchesUpTo(k - 1) \o writes[k].batch

CeilDiv(a, b) == (a + b - 1) \div b

\* C5: the writes of upsert_products carry consecutive chunks of at most
\* batch_size records in input order, each record in exactly one chunk; when
\* every write succeeds there are exactly ceil(n / batch_size) writes and n
\* is returned.
C5_ChunksPartitionInput ==
    pc \in {"chunk", "region"} /\ transformed # <<>> =>
      /\ \A k \in 1..Len(writes) : Len(writes[k].batch) \in 1..batch_size
      /\ BatchesUpTo(Len(writes)) = SubSeq(transformed, 1, Len(BatchesUpTo(Len(writes))))
      /\ pc = "region" /\ ~FailedWrite(ri - 1) =>
           /\ BatchesUpTo(Len(writes)) = transformed
           /\ Len(writes) = CeilDiv(Len(transformed), batch_size)
           /\ upserted = Len(transformed)

C5_Witness ==
    /\ pc = "region"
    /\ Len(transformed) = 150
    /\ Len(writes) = 2
    /\ upserted = 150

\* C6: search_products makes at most MAX_RETRIES attempts per call, returns
\* the response of the first attempt that succeeds, and raises only after
\* all MAX_RETRIES attempts ended in a transport error or a non-2xx status.
C6_RetryContract ==
    /\ call.attempts <= MAX_RETRIES
    /\ call.result = "returned" =>
         /\ call.attempts = attempt + 1
         /\ served.kind \in {"parsed", "JSONDecodeError"}
         /\ served.kind = "parsed" => response = served.body
    /\ call.result = "raised" =>
         /\ call.attempts = MAX_RETRIES
         /\ call.exc \in TransportFailures

\* C7: every request attempt starts at least REQUEST_DELAY after the time
\* stamped in last_request_time for the attempt before it.
C7_MinimumGap == req_gap >= REQUEST_DELAY

\* A retry on the second page that had to wait for the rate limit.
C7_Witness ==
    /\ pc = "attempt"
    /\ page = 2
    /\ attempt = 2
    /\ req_gap = REQUEST_DELAY
    /\ elapsed > REQUEST_DELAY

\* C8: a 2xx body that parses and carries a non-zero code or an empty result
\* list ends the call at that attempt and is returned unchanged.
C8_ParsedBodyReturned ==
    /\ served.kind = "parsed"
    /\ \/ served.body.code # 0
       \/ served.body.data = "mapping" /\ served.body.list = <<>>
    => pc = "got" /\ call.result = "returned" /\ response = served.body

\* C9: a body that does not parse ends the call at that attempt with the
\* sentinel, without raising, and the fetch then returns the records
\* gathered so far (trimmed to limit), which run_sync collects; no error is
\* recorded.
C9_BadJsonEndsCollection ==
    /\ [](served.kind = "JSONDecodeError" =>
            /\ pc = "got"
            /\ response = SENTINEL
            /\ call = [result |-> "returned", attempts |-> attempt + 1, exc |-> "none"])
    /\ [][pc = "got" /\ served.kind = "JSONDecodeError" =>
            /\ pc' = "category"
            /\ returned' = Take(products, limit)
            /\ region_products' = region_products \o returned'
            /\ errors' = errors
            /\ fetch_log' = Append(fetch_log, FetchEnd(ri, ci, "returned", Len(returned')))]_vars

C9_Witness ==
    /\ pc = "got"
    /\ served.kind = "JSONDecodeError"
    /\ page = 2
    /\ Len(products) = products_per_page

\* C10: the fetch returns at most limit records, and they are a prefix of
\* the records of the pages it fetched, in page order.
C10_AtMostLimitPrefix ==
    /\ Len(returned) <= limit
    /\ Len(returned) <= Len(fetched)
    /\ returned = SubSeq(fetched, 1, Len(returned))
    /\ pc = "category" /\ fetch_log # <<>> /\ fetch_log[Len(fetch_log)].result = "returned" =>
         Len(returned) = Min(limit, Len(fetched))

C10_Witness ==
    /\ pc = "category"
    /\ limit > products_per_page
    /\ Len(fetched) > limit
    /\ Len(returned) = limit

\* The records a parsed body carries, under whichever array key.
RecordsOf(body) == body.list \o body.product_list

\* C11: after a page that carried no records or fewer than
\* products_per_page records, the fetch issues no further page request: the
\* next step of the call is its return to run_sync (or its exception), also
\* when fewer than pages_needed pages have been requested.
C11_NoRequestAfterShortPage ==
    [][/\ pc = "got"
       /\ Len(RecordsOf(response)) < products_per_page
       => /\ pc' = "category"
          /\ ci' = ci + 1
          /\ page' = page
          /\ Len(fetch_log') = Len(fetch_log) + 1]_vars

\* A short first page of a call planned for three pages.
C11_Witness ==
    /\ pc = "category"
    /\ limit > 2 * products_per_page
    /\ page = 1
    /\ Len(fetched) \in 1..(products_per_page - 1)
    /\ Len(returned) = Len(fetched)

\* C12: the records of a page are collected whichever of the two array keys
\* carries them: what the while body takes from a response (page_products)
\* is the records the body carries.
C12_EitherArrayKeyCollected ==
    pc = "got" /\ response.data = "mapping" =>
       page_products_of(response) = RecordsOf(response)

\* C13: the chunk writes issued for one region carry no two canonical
\* records with the same product_id, whatever the value shapes of the raw
\* identities.
C13_OneRecordPerIdentity ==
    \A k, m \in 1..Len(writes) : writes[k].call = writes[m].call =>
       \A a \in 1..Len(writes[k].batch), b \in 1..Len(writes[m].batch) :
          (k # m \/ a # b) => writes[k].batch[a].product_id # writes[m].batch[b].product_id

\* The identity of a raw record: its product_id as persisted.
IdentityOf(p) == safe_str(GetProductId(p), "")

\* The positions of rp whose record is the first with its identity.
FirstSeen(rp) ==
    { k \in 1..Len(rp) :
        /\ Truthy(GetProductId(rp[k]))
        /\ \A j \in 1..(k - 1) : IdentityOf(rp[j]) # IdentityOf(rp[k]) }

\* The records of rp at the positions ks, in their order in rp.
Retained(rp, ks) ==
    [m \in 1..Cardinality(ks) |->
        rp[CHOOSE k \in ks : Cardinality({ j \in ks : j <= k }) = m]]

\* C14: the deduplication block keeps, for each identity, the first record
\* seen and drops every later one, keeps the retained records in input
\* order, and applied to its own output changes nothing.
C14_FirstSeenStableIdempotent ==
    [][pc = "dedupe" /\ pc' = "upsert" /\ region_products # <<>> =>
         /\ region_products' = Retained(region_products, FirstSeen(region_products))
         /\ unique_products(region_products', {}) = region_products']_vars

\* C15: every record of every chunk passed to SupabaseClient.upsert has a
\* non-empty product_id and a non-empty region, so a raw record whose
\* product_id is missing or empty is never persisted.
C15_PersistedHaveIdentityAndRegion ==
    /\ \A k \in 1..Len(writes) : \A m \in 1..Len(writes[k].batch) :
          writes[k].batch[m].product_id # "" /\ writes[k].batch[m].region # ""
    /\ \A row \in store : row.product_id # "" /\ row.region # ""
    /\ \A k \in 1..Len(transformed) :
          transformed[k].product_id # "" /\ transformed[k].region # ""

\* The first raw record (never a duplicate) was dropped for want of a
\* product_id, the second was written.
C15_Witness ==
    /\ pc = "region"
    /\ Len(writes) = 1
    /\ writes[1].ok
    /\ store # {}
    /\ \A row \in store : row.title # "1"
    /\ \E row \in store : row.title = "2"

\* upsert_products has run its transformation loop on region_products (and
\* its frame is still there).
Transformed == pc = "chunk" \/ (pc = "region" /\ (upserted >= 0 \/ writes # <<>>))

\* C16: transform_product returns a canonical record for every raw record:
\* each raw record with a product_id has its canonical record after the
\* transformation loop (none was skipped for an exception).
C16_TransformTotal ==
    Transformed => Len(transformed) = Len(region_products)

NumericFields == IntFields \cup FloatFields \cup {"relate_author_count"}

\* A finite number (not null, not NaN, not an infinity).
IsNumber(x) == x.t \in {"int", "hugeint", "float"}

\* C17: every numeric field of a record transform_product returns is a
\* number; an absent or null input gives 0, the price "$27.35" gives 27.35
\* and the price "bogus" gives 0.
C17_NumericFieldsAreNumbers ==
    Transformed /\ transformed # <<>> =>
       LET raw == region_products[1]
           t == transformed[1]
       IN  /\ \A f \in NumericFields : IsNumber(t[f])
           /\ \A f \in NumericFields \ {"relate_author_count"} :
                 Get(raw, f) = PyNone => t[f].n = 0
           /\ Get(raw, "price") = PyChars(<<"$", "2", "7", ".", "3", "5">>) =>
                 t.price = PyFloat(2735)
           /\ Get(raw, "price") = PyChars(<<"b", "o", "g", "u", "s">>) =>
                 t.price = PyFloat(0)

\* C18: in every canonical record price is at least 0 and sold_count,
\* day7_sold_count and day28_sold_count are integers that are at least 0.
C18_PriceAndCountsNonNegative ==
    Transformed /\ transformed # <<>> =>
       LET t == transformed[1]
       IN  /\ t.price.t \in {"int", "float"} => t.price.n >= 0
           /\ \A f \in {"sold_count", "day7_sold_count", "day28_sold_count"} :
                 /\ t[f].t \in {"int", "hugeint"}
                 /\ t[f].n >= 0

\* The raw record carries both aliases, with different values.
CarriesBoth(p, newer, legacy) ==
    /\ Get(p, newer) # PyNone
    /\ Get(p, legacy) # PyNone
    /\ Get(p, newer) # Get(p, legacy)

\* C19: when a raw record carries both the newer and the legacy alias of a
\* field with different values, the canonical field is the value of the
\* newer alias (crate, relate_author_count, category_id).
C19_NewerAliasWins ==
    Transformed /\ transformed # <<>> =>
       LET raw == region_products[1]
           t == transformed[1]
       IN  /\ CarriesBoth(raw, "crate", "commission_rate") =>
                 t.commission_rate = str(Get(raw, "crate"))
           /\ CarriesBoth(raw, "relate_author_count", "author_count") =>
                 t.relate_author_count = safe_int(Get(raw, "relate_author_count"), PyInt(0))
           /\ CarriesBoth(raw, "category_id", "category_l1_id") =>
                 t.category_l1_id = safe_str(Get(raw, "category_id"), "")

\* The category levels: the array field of the upstream, the legacy alias
\* (also the name of the canonical field).
CategoryLevels ==
    { [name |-> "category_name_l1", legacy |-> "category_l1"],
      [name |-> "category_name_l2", legacy |-> "category_l2"],
      [name |-> "category_name_l3", legacy |-> "category_l3"] }

IsSequence(x) == x.t = "array"

Marker == <<"s", "u", "p", "a", "b", "a", "s", "e">>

\* The calls of process_product_image made for the current region.
RehostsOf(r) == SelectSeq(rehosts, LAMBDA e : e.call = r)

\* C21: a process_product_image call whose source URL is empty or contains
\* the marker "supabase" returns that URL unchanged and makes neither a
\* download nor an upload, and the record keeps the URL.
C21_MarkedOrEmptyUntouched ==
    /\ \A k \in 1..Len(rehosts) :
          rehosts[k].original = "" \/ Contains(UrlChars(rehosts[k].original), Marker) =>
             /\ rehosts[k].result = rehosts[k].original
             /\ rehosts[k].download = "none"
             /\ rehosts[k].upload = "none"
    /\ pc = "chunk" =>
          \A k \in 1..Len(transformed) :
             LET e == RehostsOf(ri)[k]
             IN  e.original = "" \/ Contains(UrlChars(e.original), Marker) =>
                    transformed[k].img = e.original

C21_Witness ==
    /\ pc = "chunk"
    /\ Len(RehostsOf(ri)) = 2
    /\ RehostsOf(ri)[1].original = ""
    /\ Contains(UrlChars(RehostsOf(ri)[2].original), Marker)
    /\ RehostsOf(ri)[2].result = RehostsOf(ri)[2].original

\* The extension Python derives from the path of each URL.
ExpectedExtension(url) ==
    CASE url = "https://cdn.fastmoss.com/img/a.png" -> "png"
      [] url = "https://cdn.fastmoss.com/img/b" -> "jpg"
      [] url = "https://cdn.fastmoss.com/img/c.gif?v=1.png" -> "gif"
      [] url = "https://cdn.fastmoss.com/img/d.WEBP" -> "webp"
      [] OTHER -> "jpg"

\* The destination key the claim gives for a record's image.
ExpectedKey(e) ==
    e.product_id \o "_" \o Md5Hex8(e.original) \o "." \o ExpectedExtension(e.original)

\* One call of process_product_image that made a request ended as its
\* exchanges allow.
RehostedOrOriginal(e) ==
    /\ e.download = "failed" => e.result = e.original /\ e.upload = "none"
    /\ e.upload = "failed" => e.result = e.original
    /\ e.upload = "ok" =>
          /\ e.download = "ok"
          /\ e.key = ExpectedKey(e)
          /\ e.result = "https://xyz.supabase.co/storage/v1/object/public/product-images/"
                           \o e.key

\* C22: the image loop always reaches the batch loop and adds no error;
\* a call whose download or upload failed returns the original URL, any
\* other call that made a request returns the public URL of the key
\* product_id "_" md5[:8] "." ext, and two calls with the same
\* (product_id, source URL) target the same key.
C22_ImageFailuresAbsorbed ==
    /\ [](\A k \in 1..Len(rehosts) : RehostedOrOriginal(rehosts[k]))
    /\ [](\A j, k \in 1..Len(rehosts) :
             /\ rehosts[j].product_id = rehosts[k].product_id
             /\ rehosts[j].original = rehosts[k].original
             /\ rehosts[j].key # "" /\ rehosts[k].key # ""
             => rehosts[j].key = rehosts[k].key)
    /\ [][pc = "images" =>
             /\ pc' = "chunk"
             /\ errors' = errors
             /\ Len(rehosts') = Len(rehosts) + Len(transformed)
             /\ \A k \in 1..Len(transformed) :
                   transformed'[k].img = rehosts'[Len(rehosts) + k].result]_vars

C22_Witness ==
    /\ pc = "chunk"
    /\ Len(RehostsOf(ri)) = 2
    /\ RehostsOf(ri)[1].upload = "ok"
    /\ RehostsOf(ri)[1].product_id = RehostsOf(FirstRegion)[1].product_id
    /\ RehostsOf(ri)[1].original = RehostsOf(FirstRegion)[1].original
    /\ RehostsOf(FirstRegion)[1].key = RehostsOf(ri)[1].key
    /\ transformed[1].img =
          "https://xyz.supabase.co/storage/v1/object/public/product-images/1_d07b352f.gif"
    /\ RehostsOf(ri)[2].upload = "failed"
    /\ transformed[2].img = RehostsOf(ri)[2].original

(***************************************************************************)
(* The exit status                                                         *)
(***************************************************************************)
\* C23: the exit status is 0 exactly when run_sync returned with an empty
\* error list, and it is not 0 when the error list has an entry or when
\* run_sync raised.
C23_ExitStatusReflectsErrors ==
    exit_status # -1 =>
       /\ exit_status = 0 <=> (pc = "done" /\ errors = <<>>)
       /\ (errors # <<>> \/ pc = "raised") => exit_status > 0

C23_Witness ==
    /\ pc = "done"
    /\ errors # <<>>
    /\ total_synced > 0
    /\ exit_status = 1

(***************************************************************************)
(* The error list                                                          *)
(***************************************************************************)
\* The step is a search_products call raising after MAX_RETRIES attempts
\* that each ended in a transport failure or an error status.
RetriesExhausted ==
    /\ pc = "attempt"
    /\ call'.result = "raised"
    /\ call'.attempts = MAX_RETRIES
    /\ call'.exc \in TransportFailures

\* The step is a chunk write that failed.
ChunkWriteFailed ==
    /\ pc = "chunk"
    /\ Len(writes') = Len(writes) + 1
    /\ ~writes'[Len(writes')].ok

\* C24: an entry is appended to the error list only by a fetch whose
\* retries are exhausted or by a failed chunk write (one entry at a time);
\* the deduplication, the transformation and the image loop add none.
C24_ErrorsOnlyFromExhaustedFetchOrChunk ==
    [][errors' # errors =>
          /\ Len(errors') = Len(errors) + 1
          /\ SubSeq(errors', 1, Len(errors)) = errors
          /\ RetriesExhausted \/ ChunkWriteFailed]_vars

(***************************************************************************)
(* Concurrent runs                                                         *)
(***************************************************************************)
\* The product_ids of a batch.
IdsOf(batch) == { batch[k].product_id : k \in 1..Len(batch) }

\* The records of a batch.
RecordsIn(batch) == { batch[k] : k \in 1..Len(batch) }

\* The product_ids carried by the successful writes after write k.
OverwrittenAfter(k) ==
    UNION { IdsOf(writes[m].batch) : m \in { n \in (k + 1)..Len(writes) : writes[n].ok } }

\* The records of the successful write k that no later write replaced.
Surviving(k) ==
    LET later == OverwrittenAfter(k)
    IN  { rec \in RecordsIn(writes[k].batch) : rec.product_id \notin later }

\* C25: whatever the interleaving of the chunk writes of two runs, the
\* store holds exactly one row per written product_id and that row is the
\* record of the last successful write for it; a write whose product_ids
\* are all stored adds no row, and repeating a batch whose records are the
\* stored rows leaves the store as it is.
C25_InterleavedWritesConverge ==
    /\ [](/\ Cardinality({ row.product_id : row \in store }) = Cardinality(store)
          /\ store = UNION { Surviving(k) : k \in { n \in 1..Len(writes) : writes[n].ok } })
    /\ [][Len(writes') = Len(writes) + 1 =>
             LET batch == writes'[Len(writes')].batch
                 stored == { row.product_id : row \in store }
             IN  /\ IdsOf(batch) \subseteq stored => Cardinality(store') = Cardinality(store)
                 /\ RecordsIn(batch) \subseteq store => store' = store
                 /\ ~writes'[Len(writes')].ok => store' = store]_vars

C25_Witness ==
    /\ Len(writes) = 4
    /\ \A k \in 1..4 : writes[k].ok
    /\ writes[1].call = LastRegion /\ writes[2].call = 0
    /\ writes[3].call = 0 /\ writes[4].call = LastRegion
    /\ Cardinality(store) = 150
    /\ \E row \in store : row.product_id = "1" /\ row.title = "new"
    /\ \E row \in store : row.product_id = "150" /\ row.title = "old"

(***************************************************************************)
(* The phases of a region                                                  *)
(***************************************************************************)
\* rec is a canonical record (transform_product made it).
IsCanonical(rec) == "region" \in DOMAIN rec /\ "kind" \notin DOMAIN rec

\* C26: per region the phases run in the order collect and normalize,
\* deduplicate the normalized records by identity, rehost the images of
\* the retained records, write the chunks; the next region's collection
\* starts only after the region's last chunk write.
C26_PhasesInOrder ==
    [][/\ pc = "dedupe" =>
             \* what is deduplicated has been normalized
             \A k \in 1..Len(region_products) : IsCanonical(region_products[k])
       /\ pc = "images" =>
             \* the images of the retained records, then the chunks
             /\ \A j, k \in 1..Len(transformed) :
                   j # k => transformed[j].product_id # transformed[k].product_id
             /\ pc' = "chunk"
       /\ pc = "chunk" =>
             /\ Len(RehostsOf(ri)) = Len(transformed)
             /\ pc' \in {"chunk", "region"}
       /\ pc = "region" /\ pc' = "category" =>
             \* every chunk of the regions before was written or the
             \* upsert was abandoned at a failed write
             \/ i >= Len(transformed)
             \/ writes # <<>> /\ ~writes[Len(writes)].ok]_vars

(***************************************************************************)
(* Backoff                                                                 *)
(***************************************************************************)
\* n seconds in ticks of half a second.
Seconds(n) == 2 * n

\* C27: inside one search_products call the wait after the failed attempt
\* k (from 0) is 2^k seconds, 1 s after the first failure and 2 s after
\* the second; one wait follows each failed attempt but the last, after
\* which the failure is raised without a wait.
C27_BackoffDoubles ==
    /\ [](/\ Len(backoffs) <= MAX_RETRIES - 1
          /\ Len(backoffs) >= 1 => backoffs[1] = Seconds(1)
          /\ Len(backoffs) >= 2 => backoffs[2] = Seconds(2)
          /\ \A k \in 1..Len(backoffs) : backoffs[k] = Seconds(2 ^ (k - 1))
          /\ pc = "attempt" => Len(backoffs) = attempt
          /\ (call.result = "raised" /\ call.exc \in TransportFailures) =>
                /\ call.attempts = MAX_RETRIES
                /\ Len(backoffs) = MAX_RETRIES - 1)
    /\ [][/\ (pc = "attempt" /\ served'.kind \in TransportFailures /\ attempt < MAX_RETRIES - 1) =>
                /\ backoffs' = Append(backoffs, Seconds(2 ^ attempt))
                /\ \E lat \in Latencies : elapsed' = Min(lat + Seconds(2 ^ attempt), ElapsedCap)
                /\ pc' = "attempt"
          /\ (pc = "attempt" /\ served'.kind \in TransportFailures /\ attempt = MAX_RETRIES - 1) =>
                /\ backoffs' = backoffs
                /\ \E lat \in Latencies : elapsed' = lat
                /\ call'.result = "raised"]_vars

C27_Witness ==
    /\ call.result = "raised"
    /\ call.exc = "HTTPStatusError"
    /\ call.attempts = 3
    /\ backoffs = <<2, 4>>

(***************************************************************************)
(* The pages requested                                                     *)
(***************************************************************************)
\* C28: one fetch requests the pages 1, 2, ..., k in this order, each once,
\* with k at most ceil(limit / products_per_page); a request is issued only
\* while fewer than limit records are collected, and none with limit 0.
C28_PagesInOrder ==
    /\ [](/\ \A k \in 1..Len(requested) : requested[k].page = k
          /\ Len(requested) <= CeilDiv(limit, products_per_page)
          /\ limit = 0 => requested = <<>>)
    /\ [][Len(requested') > Len(requested) =>
             /\ Len(requested') = Len(requested) + 1
             /\ SubSeq(requested', 1, Len(requested)) = requested
             /\ requested'[Len(requested')].page = page
             /\ Len(products) < limit]_vars

C28_Witness ==
    /\ pc = "category"
    /\ limit = 12
    /\ Len(requested) = 3
    /\ \A k \in 1..3 : requested[k].page = k
    /\ Len(returned) = 12

\* The fetch is between two of its requests or has ended.
RequestInFlight == pc \in {"attempt", "got"}

\* C29: the inter-page delay of 1 s is made before every page request but
\* the first and only when another request follows: while a request is in
\* flight and when the fetch has ended the delays number the requests
\* minus one, and a delay is always followed by the next request.
C29_DelayBetweenRequests ==
    /\ []((RequestInFlight \/ (pc = "category" /\ requested # <<>>)) =>
             page_sleeps = Len(requested) - 1)
    /\ [](requested = <<>> => page_sleeps = 0)
    /\ [][page_sleeps' > page_sleeps =>
             /\ page_sleeps' = page_sleeps + 1
             /\ pc = "got" /\ pc' = "page"
             /\ elapsed' = Min(elapsed + Seconds(1), ElapsedCap)]_vars
    /\ [][(pc = "page" /\ page_sleeps = Len(requested) /\ requested # <<>>) =>
             /\ Len(requested') = Len(requested) + 1
             /\ RequestInFlight']_vars

C29_Witness ==
    /\ pc = "category"
    /\ Len(requested) = 3
    /\ page_sleeps = 2
    /\ Len(returned) = 11

(***************************************************************************)
(* The page size                                                           *)
(***************************************************************************)
\* C30: the page size the fetch counts with (pages needed, short page) is
\* the page size it asks the upstream for, so a page with fewer records
\* than requested ends the fetch.
C30_OnePageSize ==
    /\ [](\A k \in 1..Len(requested) : requested[k].pagesize = products_per_page)
    /\ [][(/\ pc = "got"
           /\ page_products_of(response) # <<>>
           /\ IsMapping(page_products_of(response)[1])
           /\ Len(page_products_of(response)) < requested[Len(requested)].pagesize) =>
             /\ pc' = "category"
             /\ Len(requested') = Len(requested)]_vars

====
